---- MODULE Spec2Model ----
(***************************************************************************)
(* A model of the TIFF compressor: compress_tiff_file (src/utils.py), the  *)
(* iterative size-targeting loop, and the /compress handler (src/main.py)  *)
(* that wraps it.                                                          *)
(*                                                                         *)
(* Python floats are modelled as fixed-point numbers with eight decimal    *)
(* digits (Unit = 1.0).  On the inputs used here floor(x * s) and the test *)
(* s <= 0.1 give the same integers and the same truth values as IEEE       *)
(* doubles do in the source.                                               *)
(***************************************************************************)
EXTENDS Integers, Sequences, FiniteSets, TLC

VARIABLES
    call,    \* caller id -> the frame of its compress_tiff_file invocation
    files,   \* the filesystem: path -> content, for the paths that exist
    reqs     \* request id -> the state of its /compress handler

vars == <<call, files, reqs>>

----------------------------------------------------------------------------
(* Numbers *)

Unit == 10^8

\* the float n/d
Frac(n, d) == (n * Unit) \div d

\* int(x * s) for an integer x >= 0 and a float s >= 0 (utils.py:78-81);
\* the product is split so that it stays inside 32 bits
FloorMul(x, s) ==
    LET hi == s \div 10000
        lo == s % 10000
    IN  (x * hi + ((x * lo) \div 10000)) \div 10000

Max(a, b) == IF a >= b THEN a ELSE b

\* bytes per kilobyte (utils.py:117)
KB == 1024

\* a decay of 0.99, as in the older variants of the routine
DecaySlow(s) == s - (s \div 100)

\* a scale that grows instead of shrinking
DecayInverted(s) == (s * 10) \div 9

\* scale_factor *= 0.9 (utils.py:122), rounded to nearest
Decay(s) == (s * 9 + 5) \div 10

\* the stop threshold of utils.py:118
MinScale == Frac(1, 10)

----------------------------------------------------------------------------
(* Inputs *)

\* largest side of the small source images
MaxDim == 4

\* source images: every small one, degenerate ones included, and the
\* 1000x800 image of the documented scenario
Images ==
    {[width |-> w, height |-> h] : w \in 1..MaxDim, h \in {1, MaxDim}}
        \cup {[width |-> 1000, height |-> 800], [width |-> 3, height |-> 1000]}

\* the defaults of the signature (utils.py:23-29); target_size_kb has none
Default ==
    [target_size_kb      |-> 1,
     min_size_percentage |-> Frac(3, 10),
     scale_factor        |-> Frac(9, 10),
     sharpness_factor    |-> Frac(15, 10),
     contrast_factor     |-> Frac(15, 10),
     blur_radius         |-> Frac(1, 10),
     dpi                 |-> 300]

\* the ranges declared for the parameters (docstring utils.py:42-48, enforced
\* at the HTTP boundary by main.py:69-75)
InRange(p) ==
    /\ p.target_size_kb > 0
    /\ p.min_size_percentage > Frac(1, 10) /\ p.min_size_percentage <= Unit
    /\ p.scale_factor > Frac(1, 10) /\ p.scale_factor <= Unit
    /\ p.sharpness_factor > Frac(1, 10) /\ p.sharpness_factor <= Frac(3, 1)
    /\ p.contrast_factor > Frac(1, 10) /\ p.contrast_factor <= Frac(3, 1)
    /\ p.blur_radius >= 0 /\ p.blur_radius <= Frac(2, 1)
    /\ p.dpi > 0

ValidParams ==
    {[Default EXCEPT !.target_size_kb = t, !.min_size_percentage = m,
                     !.scale_factor = s, !.blur_radius = b] :
        t \in {1, 2},
        m \in {Frac(11, 100), Frac(3, 10), Frac(1, 2), Unit},
        s \in {Frac(11, 100), Frac(1, 2), Frac(9, 10), Unit},
        b \in {0, Frac(1, 10)}}

\* one parameter out of its range, the others at their defaults
InvalidParams ==
    {[Default EXCEPT !.target_size_kb = t] : t \in {0, -1}}
        \cup {[Default EXCEPT !.min_size_percentage = m] :
                 m \in {0, Frac(5, 100), Frac(1, 10), Frac(3, 2)}}
        \cup {[Default EXCEPT !.scale_factor = s] :
                 s \in {0, Frac(5, 100), Frac(1, 10), Frac(3, 2)}}
        \cup {[Default EXCEPT !.sharpness_factor = 0],
              [Default EXCEPT !.contrast_factor = 0],
              [Default EXCEPT !.blur_radius = 0 - Frac(1, 10)],
              [Default EXCEPT !.dpi = 0]}

\* sizes in bytes the encoder can produce for a candidate: at, just above and
\* well above one kilobyte
EncodedSizes == {KB, KB + 1, 2 * KB + 1}

----------------------------------------------------------------------------
(* The filesystem *)

NoPath == [dir |-> "", base |-> ""]

\* os.path.basename (utils.py:68)
Basename(path) == path.base

\* an output written over the input file
OutputNameInPlace(input_file) == input_file

\* output_file = f"compressed_{os.path.basename(input_file)}" (utils.py:68):
\* a relative name, so it lands in the working directory
OutputName(input_file) ==
    [dir |-> "cwd", base |-> "compressed_" \o Basename(input_file)]

Exists(path) == path \in DOMAIN files

\* a write that does not replace a file already there
WrittenIfAbsent(fs, path, content) ==
    [q \in DOMAIN fs \cup {path} |->
        IF q = path /\ path \notin DOMAIN fs THEN content ELSE fs[q]]

\* the filesystem after `content` is written to `path`
Written(fs, path, content) ==
    [q \in DOMAIN fs \cup {path} |-> IF q = path THEN content ELSE fs[q]]

\* the filesystem after os.unlink(path); unlinking a missing path raises and
\* the bare except of main.py:151-159 swallows it
Unlinked(fs, path) == [q \in DOMAIN fs \ {path} |-> fs[q]]

\* an uploaded scan: it carries the metadata of its scanner; `tags` are the
\* keys of the image's info dictionary
SourceTiff(img) ==
    [kind |-> "tiff", width |-> img.width, height |-> img.height,
     bytes |-> 0, writer |-> "client", dpi |-> 0,
     tags |-> {"dpi", "exif", "icc_profile"}]

Garbage == [kind |-> "garbage", width |-> 0, height |-> 0,
            bytes |-> 0, writer |-> "client", dpi |-> 0, tags |-> {}]

Empty == [kind |-> "empty", width |-> 0, height |-> 0,
          bytes |-> 0, writer |-> "server", dpi |-> 0, tags |-> {}]

\* Image.open succeeds on a file that exists and holds an image
Decodable(path) == Exists(path) /\ files[path].kind = "tiff"

----------------------------------------------------------------------------
(* compress_tiff_file (utils.py:21-124) *)

\* the frame of a call that has not started
Frame(input_file, p) ==
    [pc                  |-> "enter",
     input_file          |-> input_file,
     target_size_kb      |-> p.target_size_kb,
     min_size_percentage |-> p.min_size_percentage,
     scale_factor        |-> p.scale_factor,
     sharpness_factor    |-> p.sharpness_factor,
     contrast_factor     |-> p.contrast_factor,
     blur_radius         |-> p.blur_radius,
     dpi                 |-> p.dpi,
     output_file         |-> NoPath,
     original_width      |-> 0,
     original_height     |-> 0,
     new_width           |-> 0,
     new_height          |-> 0,
     output_size         |-> 0,
     error               |-> "",
     \* history, not program state
     steps               |-> <<>>,  \* the operations of the current pass
     given               |-> p,     \* the arguments as passed
     opens               |-> 0,     \* Image.open calls that succeeded
     writes              |-> 0,     \* saves that succeeded
     decays              |-> 0,     \* executions of utils.py:122
     hist                |-> <<>>]  \* per pass: the scale used, the candidate
                                    \* dimensions and, once measured, whether
                                    \* the encoded size met the target

Idle == [Frame(NoPath, Default) EXCEPT !.pc = "idle"]

\* the input validation of utils.py:59-60
TargetAccepted(target_size_kb) == target_size_kb > 0

\* the candidate dimension without the minimum-size floor
NewDimNoFloor(img_dim, original_dim, scale_factor, min_size_percentage) ==
    FloorMul(img_dim, scale_factor)

\* the floor taken from the scaled dimension instead of the original one
NewDimFloorOfScaled(img_dim, original_dim, scale_factor, min_size_percentage) ==
    Max(FloorMul(img_dim, scale_factor),
        FloorMul(FloorMul(original_dim, scale_factor), min_size_percentage))

\* the scaled dimension rounded up instead of truncated
NewDimRoundedUp(img_dim, original_dim, scale_factor, min_size_percentage) ==
    Max(FloorMul(img_dim, scale_factor) + 1,
        FloorMul(original_dim, min_size_percentage))

\* new_width = max(int(img.width * scale_factor), min_width) with
\* min_width = int(original_width * min_size_percentage) (utils.py:78-81)
NewDim(img_dim, original_dim, scale_factor, min_size_percentage) ==
    Max(FloorMul(img_dim, scale_factor),
        FloorMul(original_dim, min_size_percentage))

\* Image.resize raises ValueError("height and width must be > 0") for a side
\* below one pixel (the call of utils.py:84-87)
ResizeAccepts(w, h) == w >= 1 /\ h >= 1

\* output_size_kb <= target_size_kb, with output_size_kb = bytes / 1024
\* (utils.py:117-118)
WithinTarget(bytes, target_size_kb) == bytes <= target_size_kb * KB

\* a break condition that ignores the measured size
ShouldStopScaleOnly(bytes, target_size_kb, scale_factor) ==
    scale_factor <= MinScale

\* a break condition that ignores the scale
ShouldStopSizeOnly(bytes, target_size_kb, scale_factor) ==
    WithinTarget(bytes, target_size_kb)

\* the break condition of utils.py:118
ShouldStop(bytes, target_size_kb, scale_factor) ==
    WithinTarget(bytes, target_size_kb) \/ scale_factor <= MinScale

Raise(f, kind) == [f EXCEPT !.pc = "raised", !.error = kind]

\* utils.py:58-69: validation, the existence check, the output name
Validate(c) ==
    LET f == call[c] IN
    /\ f.pc = "enter"
    /\ call' = [call EXCEPT ![c] =
          IF ~TargetAccepted(f.target_size_kb) THEN Raise(f, "ValueError")
          ELSE IF ~Exists(f.input_file) THEN Raise(f, "FileNotFoundError")
          ELSE [f EXCEPT !.pc = "probe",
                         !.output_file = OutputName(f.input_file)]]
    /\ UNCHANGED <<files, reqs>>

\* utils.py:71-73: the first decode, for the original dimensions
Probe(c) ==
    LET f == call[c] IN
    /\ f.pc = "probe"
    /\ call' = [call EXCEPT ![c] =
          IF ~Decodable(f.input_file) THEN Raise(f, "DecodeError")
          ELSE [f EXCEPT !.pc = "pass",
                         !.original_width = files[f.input_file].width,
                         !.original_height = files[f.input_file].height,
                         !.opens = @ + 1]]
    /\ UNCHANGED <<files, reqs>>

\* the info dictionary after utils.py:104 and 107: the resized image
\* inherits the source's keys, line 104 adds dpi, line 107 replaces the
\* dictionary by one that holds dpi alone
InfoKept(tags) == ({"dpi"} \cup tags) \cap {"dpi"}

\* the artifact one pass saves (utils.py:103-114): the candidate's pixels,
\* no metadata but the dpi tag, `bytes` long once encoded
Artifact(c, w, h, dpi, bytes) ==
    [kind |-> "tiff", width |-> w, height |-> h,
     bytes |-> bytes, writer |-> c, dpi |-> dpi,
     tags |-> InfoKept(files[call[c].input_file].tags)]

\* the blur applied whatever the radius, as in an older variant
PassStepsBlurAlways(blur_radius) ==
    <<"resize", "sharpness", "contrast", "blur", "metadata", "save">>

\* the operations of one pass, in program order (utils.py:83-114); the blur
\* is guarded by blur_radius > 0 (utils.py:98)
PassSteps(blur_radius) ==
    <<"resize", "sharpness", "contrast">>
        \o (IF blur_radius > 0 THEN <<"blur">> ELSE <<>>)
        \o <<"metadata", "save">>

\* utils.py:76-114: one pass of the loop body up to the save.  The encoder's
\* output size and whether the write succeeds are the environment's choice.
Pass(c) ==
    LET f  == call[c]
        img == files[f.input_file]
        w  == NewDim(img.width, f.original_width,
                     f.scale_factor, f.min_size_percentage)
        h  == NewDim(img.height, f.original_height,
                     f.scale_factor, f.min_size_percentage)
        g  == [f EXCEPT !.new_width = w, !.new_height = h, !.opens = @ + 1,
                        !.steps = IF ResizeAccepts(w, h)
                                  THEN PassSteps(f.blur_radius)
                                  ELSE <<"resize">>,
                        !.hist = Append(@, [scale  |-> f.scale_factor,
                                            width  |-> w, height |-> h,
                                            size   |-> "unmeasured"])]
    IN
    /\ f.pc = "pass"
    /\ IF ~Decodable(f.input_file)
       THEN /\ call' = [call EXCEPT ![c] = Raise(f, "DecodeError")]
            /\ UNCHANGED files
       ELSE IF ~ResizeAccepts(w, h)
       THEN /\ call' = [call EXCEPT ![c] = Raise(g, "ResizeError")]
            /\ UNCHANGED files
       ELSE \E bytes \in EncodedSizes, written \in BOOLEAN :
            IF written
            THEN /\ files' = Written(files, f.output_file,
                                     Artifact(c, w, h, f.dpi, bytes))
                 /\ call' = [call EXCEPT ![c] =
                                [g EXCEPT !.pc = "check", !.writes = @ + 1]]
            ELSE /\ call' = [call EXCEPT ![c] = Raise(g, "IOError")]
                 /\ UNCHANGED files
    /\ UNCHANGED reqs

\* utils.py:116-124: measure the file at output_file, then stop or decay
Check(c) ==
    LET f == call[c] IN
    /\ f.pc = "check"
    /\ call' = [call EXCEPT ![c] =
          IF ~Exists(f.output_file) THEN Raise(f, "FileNotFoundError")
          ELSE LET bytes == files[f.output_file].bytes
                   g == [f EXCEPT !.output_size = bytes,
                                  !.steps = Append(@, "measure"),
                                  !.hist[Len(f.hist)].size =
                                      IF WithinTarget(bytes, f.target_size_kb)
                                      THEN "within" ELSE "over"]
               IN
               IF ShouldStop(bytes, f.target_size_kb, f.scale_factor)
               THEN [g EXCEPT !.pc = "returned"]
               ELSE [g EXCEPT !.pc = "pass",
                              !.scale_factor = Decay(@),
                              !.decays = @ + 1]]
    /\ UNCHANGED <<files, reqs>>

----------------------------------------------------------------------------
(* A direct call of compress_tiff_file, with any arguments *)

Direct == "direct"

InPath == [dir |-> "in", base |-> "scan.tif"]

InitCall ==
    /\ \E p \in ValidParams \cup InvalidParams :
           call = [c \in {Direct} |-> Frame(InPath, p)]
    /\ \/ \E img \in Images : files = [q \in {InPath} |-> SourceTiff(img)]
       \/ files = [q \in {InPath} |-> Garbage]
       \/ files = [q \in {} |-> Garbage]
    /\ reqs = <<>>

NextCall ==
    \/ Validate(Direct)
    \/ Probe(Direct)
    \/ Pass(Direct)
    \/ Check(Direct)

Spec == InitCall /\ [][NextCall]_vars

\* the loop is sequential code: a step that can be taken is taken
FairSpec == Spec /\ WF_vars(NextCall)

----------------------------------------------------------------------------
(* The /compress handler (main.py:67-159) *)

Requests == {"A", "B"}

\* names NamedTemporaryFile can draw; a request holds at most two at a time
NumTmpNames == 4

TmpPaths == {[dir |-> "tmp", base |-> "tmp" \o ToString(n) \o ".tiff"] :
                n \in 1..NumTmpNames}

\* NamedTemporaryFile(delete=False, suffix='.tiff') (main.py:105, 111) creates
\* a file under a random name that no existing file has
FreshTmpPaths == {q \in TmpPaths : ~Exists(q)}

\* the filenames uploaded, as character sequences
ScanTif == <<"s", "c", "a", "n", ".", "t", "i", "f">>
ScanTiffUpper == <<"S", "C", "A", "N", ".", "T", "I", "F", "F">>
ScanPng == <<"s", "c", "a", "n", ".", "p", "n", "g">>

\* str.lower on the characters in use
LowerChar(ch) ==
    CASE ch = "S" -> "s" [] ch = "C" -> "c" [] ch = "A" -> "a"
      [] ch = "N" -> "n" [] ch = "T" -> "t" [] ch = "I" -> "i"
      [] ch = "F" -> "f" [] ch = "P" -> "p" [] ch = "G" -> "g"
      [] OTHER -> ch

Lower(name) == [i \in 1..Len(name) |-> LowerChar(name[i])]

\* str.endswith
EndsWith(name, suffix) ==
    /\ Len(name) >= Len(suffix)
    /\ SubSeq(name, Len(name) - Len(suffix) + 1, Len(name)) = suffix

\* an extension check that accepts any name with an extension
IsTiffNameAnyExtension(name) ==
    \E i \in 1..Len(name) : name[i] = "."

\* file.filename.lower().endswith(('.tiff', '.tif')) (main.py:97)
IsTiffName(name) ==
    \/ EndsWith(Lower(name), <<".", "t", "i", "f", "f">>)
    \/ EndsWith(Lower(name), <<".", "t", "i", "f">>)

\* the form fields as the handler passes them on (main.py:69-75, 116-125)
HttpParams(target, scale) ==
    [Default EXCEPT !.target_size_kb = target, !.scale_factor = scale]

\* the uploads exercised: two that compress (two passes at most from 0.11),
\* one that is no image, one degenerate image, one wrong extension, one form
\* field out of range
Uploads ==
    {[filename |-> ScanTif,
      content  |-> SourceTiff([width |-> 40, height |-> 30]),
      params   |-> HttpParams(1, Frac(11, 100))],
     [filename |-> ScanTiffUpper,
      content  |-> Garbage,
      params   |-> HttpParams(2, Frac(9, 10))],
     [filename |-> ScanTif,
      content  |-> SourceTiff([width |-> 1, height |-> 1]),
      params   |-> HttpParams(1, Frac(9, 10))],
     [filename |-> ScanPng,
      content  |-> SourceTiff([width |-> 40, height |-> 30]),
      params   |-> HttpParams(1, Frac(9, 10))],
     [filename |-> ScanTif,
      content  |-> SourceTiff([width |-> 40, height |-> 30]),
      params   |-> [Default EXCEPT !.min_size_percentage = Frac(5, 100)]]}

Request(u) ==
    [pc               |-> "received",
     filename         |-> u.filename,
     content          |-> u.content,
     params           |-> u.params,
     temp_input_path  |-> NoPath,   \* NoPath: not in locals()
     temp_output_path |-> NoPath,
     output_file      |-> NoPath,
     failed           |-> FALSE,    \* an HTTPException(500) is propagating
     status           |-> 0,        \* the status of the response, once known
     delivered        |-> Empty]    \* the file content sent as the body

\* the form constraints of main.py:69-75: a field out of its range is
\* answered 422 and the handler body does not run
ValidateForm(r) ==
    LET q == reqs[r] IN
    /\ q.pc = "received"
    /\ reqs' = [reqs EXCEPT ![r] =
          IF InRange(q.params) THEN [q EXCEPT !.pc = "extension"]
          ELSE [q EXCEPT !.pc = "done", !.status = 422]]
    /\ UNCHANGED <<call, files>>

\* main.py:96-101: the 400 is raised before the try block, so the finally
\* block does not run for it
CheckExtension(r) ==
    LET q == reqs[r] IN
    /\ q.pc = "extension"
    /\ reqs' = [reqs EXCEPT ![r] =
          IF IsTiffName(q.filename) THEN [q EXCEPT !.pc = "temp_input"]
          ELSE [q EXCEPT !.pc = "done", !.status = 400]]
    /\ UNCHANGED <<call, files>>

\* main.py:104-108: the temporary input is created, then the upload is
\* copied into it, then its name is bound.  A copy that fails leaves the
\* file and no temp_input_path.
CreateTempInput(r) ==
    LET q == reqs[r] IN
    /\ q.pc = "temp_input"
    /\ \E path \in FreshTmpPaths, copied \in BOOLEAN :
          IF copied
          THEN /\ files' = Written(files, path, [q.content EXCEPT !.writer = r])
               /\ reqs' = [reqs EXCEPT ![r] =
                     [q EXCEPT !.pc = "temp_output", !.temp_input_path = path]]
          ELSE /\ files' = Written(files, path, [Empty EXCEPT !.writer = r])
               /\ reqs' = [reqs EXCEPT ![r] =
                     [q EXCEPT !.pc = "finally", !.failed = TRUE]]
    /\ UNCHANGED call

\* main.py:110-112: an empty placeholder, never written to again
CreateTempOutput(r) ==
    LET q == reqs[r] IN
    /\ q.pc = "temp_output"
    /\ \E path \in FreshTmpPaths :
          /\ files' = Written(files, path, [Empty EXCEPT !.writer = r])
          /\ reqs' = [reqs EXCEPT ![r] =
                [q EXCEPT !.pc = "call", !.temp_output_path = path]]
    /\ UNCHANGED call

\* main.py:116-125: the call, on the temporary input
CallCompress(r) ==
    LET q == reqs[r] IN
    /\ q.pc = "call"
    /\ reqs' = [reqs EXCEPT ![r] = [q EXCEPT !.pc = "compressing"]]
    /\ call' = [call EXCEPT ![r] = Frame(q.temp_input_path, q.params)]
    /\ UNCHANGED files

\* main.py:127-133: the FileResponse is built on the returned path; it is
\* sent after the handler has returned
BuildResponse(r) ==
    LET q == reqs[r] IN
    /\ q.pc = "compressing" /\ call[r].pc = "returned"
    /\ reqs' = [reqs EXCEPT ![r] =
          [q EXCEPT !.pc = "finally", !.output_file = call[r].output_file]]
    /\ UNCHANGED <<call, files>>

\* an except clause that swallows the failure and answers with the file at
\* the expected output path
HandleFailureSwallowed(r) ==
    LET q == reqs[r] IN
    /\ q.pc = "compressing" /\ call[r].pc = "raised"
    /\ reqs' = [reqs EXCEPT ![r] =
          [q EXCEPT !.pc = "finally",
                    !.output_file = OutputName(q.temp_input_path)]]
    /\ UNCHANGED <<call, files>>

\* main.py:135-145: the inner handler wraps the failure in an
\* HTTPException(500), which the outer `except Exception` catches and wraps
\* again in an HTTPException(500)
HandleFailure(r) ==
    LET q == reqs[r] IN
    /\ q.pc = "compressing" /\ call[r].pc = "raised"
    /\ reqs' = [reqs EXCEPT ![r] = [q EXCEPT !.pc = "finally", !.failed = TRUE]]
    /\ UNCHANGED <<call, files>>

\* main.py:147-159: the two temporary paths that are bound are unlinked;
\* then the 500 propagates or the response goes out
Cleanup(r) ==
    LET q == reqs[r] IN
    /\ q.pc = "finally"
    /\ files' = Unlinked(Unlinked(files, q.temp_input_path), q.temp_output_path)
    /\ reqs' = [reqs EXCEPT ![r] =
          IF q.failed THEN [q EXCEPT !.pc = "done", !.status = 500]
          ELSE [q EXCEPT !.pc = "sending"]]
    /\ UNCHANGED call

\* the FileResponse of main.py:128-133 reads the file at its path when it is
\* sent; a missing file fails the response
SendFile(r) ==
    LET q == reqs[r] IN
    /\ q.pc = "sending"
    /\ reqs' = [reqs EXCEPT ![r] =
          IF Exists(q.output_file)
          THEN [q EXCEPT !.pc = "done", !.status = 200,
                         !.delivered = files[q.output_file]]
          ELSE [q EXCEPT !.pc = "done", !.status = 500]]
    /\ UNCHANGED <<call, files>>

InitHttp ==
    /\ reqs \in [Requests -> {Request(u) : u \in Uploads}]
    /\ call = [r \in Requests |-> Idle]
    /\ files = [q \in {} |-> Empty]

NextHttp ==
    \E r \in Requests :
        \/ ValidateForm(r)
        \/ CheckExtension(r)
        \/ CreateTempInput(r)
        \/ CreateTempOutput(r)
        \/ CallCompress(r)
        \/ Validate(r)
        \/ Probe(r)
        \/ Pass(r)
        \/ Check(r)
        \/ BuildResponse(r)
        \/ HandleFailure(r)
        \/ Cleanup(r)
        \/ SendFile(r)

HttpSpec == InitHttp /\ [][NextHttp]_vars

----------------------------------------------------------------------------
(* Properties of one call of compress_tiff_file *)

F == call[Direct]

Finished(f) == f.pc \in {"returned", "raised"}

\* the least n with s * 0.9^n <= 0.1, that is ceil(log(0.1 / s) / log(0.9))
RECURSIVE DecaysNeeded(_)
DecaysNeeded(s) ==
    IF 10 * s <= Unit THEN 0 ELSE 1 + DecaysNeeded((s * 9) \div 10)

\* floor(log(0.1) / log(0.9)) = floor(21.85...): 0.9^21 > 0.1 >= 0.9^22
FloorLogBound == DecaysNeeded(Unit) - 1

\* C1 as stated: a call with valid parameters performs at most
\* log(0.1)/log(0.9) = 21.85... scale decays.
C1_DecaysWithinLogBound ==
    InRange(F.given) => F.decays <= FloorLogBound

\* C1, amended: a call with valid parameters terminates, whatever sizes are
\* measured, and performs at most ceil(log(0.1 / scale_factor) / log(0.9))
\* scale decays, the least n with scale_factor * 0.9^n <= 0.1.
C1_TerminatesWithinCeilBound ==
    /\ [](InRange(F.given) => <>Finished(F))
    /\ [](InRange(F.given) =>
              F.decays <= DecaysNeeded(F.given.scale_factor))

\* a call from scale_factor 1.0 that returned after all its 22 decays
C1_Witness ==
    /\ InRange(F.given) /\ F.pc = "returned"
    /\ F.given.scale_factor = Unit
    /\ F.decays = DecaysNeeded(Unit) /\ F.decays > FloorLogBound

MinWidth(f) == FloorMul(f.original_width, f.given.min_size_percentage)
MinHeight(f) == FloorMul(f.original_height, f.given.min_size_percentage)

\* C2: in every pass the candidate width and height are at least the floor
\* floor(original * min_size_percentage), whatever the decayed scale is.
C2_FloorInvariant ==
    \A i \in 1..Len(F.hist) :
        /\ F.hist[i].width >= MinWidth(F)
        /\ F.hist[i].height >= MinHeight(F)

\* a pass in which the scaled width is below the floor and the floor wins
C2_Witness ==
    /\ InRange(F.given)
    /\ \E i \in 1..Len(F.hist) :
          /\ FloorMul(F.original_width, F.hist[i].scale) < MinWidth(F)
          /\ F.hist[i].width = MinWidth(F)
          /\ F.hist[i].width >= 1

\* the stop rule: every pass but the last measured a size over the target at
\* a scale above 0.1, and a call returns on a size within the target or a
\* scale at or below 0.1
StopRule(f) ==
    /\ \A i \in 1..(Len(f.hist) - 1) :
          f.hist[i].size = "over" /\ f.hist[i].scale > MinScale
    /\ f.pc = "returned" =>
          /\ f.hist # <<>>
          /\ f.hist[Len(f.hist)].scale = f.scale_factor
          /\ \/ f.hist[Len(f.hist)].size = "within"
             \/ f.scale_factor <= MinScale

\* C3: the loop stops after a pass exactly when the measured size is within
\* the target or the scale is at or below 0.1, and a call whose measured
\* sizes all exceed the target returns normally: the loop body never raises.
C3_StopsAndReturnsNormally ==
    /\ StopRule(F)
    /\ ~(F.pc = "raised" /\ F.error = "ResizeError"
            /\ InRange(F.given) /\ F.writes >= 1)

\* C4: when the first measured size is within the target, exactly one pass
\* runs (one resize, one write, no decay) and the call returns with
\* scale_factor still at its initial value.
C4_EarlyExit ==
    (F.hist # <<>> /\ F.hist[1].size = "within") =>
        /\ F.pc = "returned"
        /\ Len(F.hist) = 1 /\ F.writes = 1 /\ F.decays = 0
        /\ F.scale_factor = F.given.scale_factor

\* a call that returned on its first measurement, at a scale above 0.1
C4_Witness ==
    /\ F.pc = "returned" /\ F.hist[1].size = "within"
    /\ F.scale_factor > MinScale

\* C5: candidate width and height never grow from one pass to the next.
C5_Monotone ==
    \A i \in 1..(Len(F.hist) - 1) :
        /\ F.hist[i + 1].width <= F.hist[i].width
        /\ F.hist[i + 1].height <= F.hist[i].height

\* two passes, the second strictly smaller in both dimensions
C5_Witness ==
    /\ Len(F.hist) >= 2
    /\ F.hist[2].width < F.hist[1].width
    /\ F.hist[2].height < F.hist[1].height

\* C6: for a source of at least 1x1 and valid parameters, every pass hands
\* the resize step a width and a height of at least 1.
C6_DimensionsAtLeastOne ==
    (InRange(F.given) /\ F.original_width >= 1 /\ F.original_height >= 1) =>
        \A i \in 1..Len(F.hist) :
            F.hist[i].width >= 1 /\ F.hist[i].height >= 1

AtFloor(f, i) ==
    f.hist[i].width = MinWidth(f) /\ f.hist[i].height = MinHeight(f)

\* C7 as stated: once a pass has produced a candidate whose width and height
\* both equal the floor, no further pass is executed.
C7_StopsAtFloor ==
    \A i \in 1..(Len(F.hist) - 1) : ~AtFloor(F, i)

\* C7, amended: reaching the floor does not stop the loop.  It runs until the
\* size is within the target or the scale is at or below 0.1; a pass after
\* one at the floor was preceded by a size over the target at a scale above
\* 0.1, and produces the floor dimensions again.
C7_FloorDoesNotStop ==
    \A i \in 1..(Len(F.hist) - 1) :
        AtFloor(F, i) =>
            /\ F.hist[i].size = "over" /\ F.hist[i].scale > MinScale
            /\ AtFloor(F, i + 1)

\* the documented scenario (1000x800, floor 0.5, scale 0.9): a pass at
\* 500x400 followed by another pass
C7_Witness ==
    /\ F.original_width = 1000 /\ F.original_height = 800
    /\ F.given.min_size_percentage = Frac(1, 2)
    /\ F.given.scale_factor = Frac(9, 10)
    /\ \E i \in 1..(Len(F.hist) - 1) :
          AtFloor(F, i) /\ F.hist[i].width = 500 /\ F.hist[i].height = 400

\* C8: with any parameter out of its declared range the call fails with the
\* invalid-parameter error before it decodes the source or writes anything.
C8_RejectsInvalidParameters ==
    ~InRange(F.given) =>
        /\ F.pc \in {"enter", "raised"}
        /\ F.pc = "raised" => F.error = "ValueError"
        /\ F.opens = 0 /\ F.writes = 0

\* a pass has computed its candidate
Looping(f) == f.hist # <<>>

\* C13: every pass computes its candidate from the source image's
\* dimensions, not from the previous candidate: new_width =
\* max(floor(original_width * current_scale),
\*     floor(original_width * min_size_percentage)), likewise for the height,
\* with original_width and original_height those of the source file
\* throughout the call.
C13_CandidateFromSource ==
    Looping(F) =>
        /\ F.original_width = files[InPath].width
        /\ F.original_height = files[InPath].height
        /\ files[InPath].writer = "client"
        /\ \A i \in 1..Len(F.hist) :
              /\ F.hist[i].width =
                    Max(FloorMul(F.original_width, F.hist[i].scale),
                        FloorMul(F.original_width,
                                 F.given.min_size_percentage))
              /\ F.hist[i].height =
                    Max(FloorMul(F.original_height, F.hist[i].scale),
                        FloorMul(F.original_height,
                                 F.given.min_size_percentage))

\* a second pass whose width is not what scaling the first candidate gives
C13_Witness ==
    /\ Len(F.hist) >= 2
    /\ F.hist[2].width > MinWidth(F)
    /\ F.hist[2].width # FloorMul(F.hist[1].width, F.hist[2].scale)

\* the pass whose artifact is on disk
LastPass(f) == f.hist[Len(f.hist)]

\* C14: every pass of a call writes to the same output path, replacing the
\* bytes of the pass before, and the path returned holds the artifact of the
\* last pass executed, the one whose measured size decided the stop.
C14_LastArtifactReturned ==
    /\ DOMAIN files \subseteq {InPath, OutputName(InPath)}
    /\ F.pc \in {"check", "returned"} =>
          /\ F.output_file = OutputName(InPath)
          /\ Exists(F.output_file)
          /\ files[F.output_file].writer = Direct
          /\ files[F.output_file].width = LastPass(F).width
          /\ files[F.output_file].height = LastPass(F).height
    /\ F.pc = "returned" =>
          /\ files[F.output_file].bytes = F.output_size
          /\ F.writes = Len(F.hist)

\* a call returned after several passes: the one file holds the last, smaller
\* candidate
C14_Witness ==
    /\ F.pc = "returned" /\ F.writes >= 3
    /\ F.hist[1].width > LastPass(F).width
    /\ files[F.output_file].width = LastPass(F).width
    /\ Cardinality(DOMAIN files) = 2

\* C15: the steps of every pass run in the order resize, sharpness, contrast,
\* Gaussian blur, metadata reset, encode, measure; the blur runs if and only if
\* blur_radius > 0; the artifact carries no metadata but the (dpi, dpi) tag.
C15_StepOrder ==
    LET saved == IF F.given.blur_radius > 0
                 THEN <<"resize", "sharpness", "contrast", "blur",
                        "metadata", "save">>
                 ELSE <<"resize", "sharpness", "contrast",
                        "metadata", "save">>
    IN
    /\ F.pc = "check" => F.steps = saved
    /\ (F.pc = "returned" \/ (F.pc = "pass" /\ Looping(F))) =>
          F.steps = Append(saved, "measure")
    /\ F.writes >= 1 =>
          /\ files[F.output_file].tags = {"dpi"}
          /\ files[F.output_file].dpi = F.given.dpi

\* a measured pass with blur_radius = 0, so without the blur, on a source
\* that carries other metadata
C15_Witness ==
    /\ F.pc = "returned"
    /\ F.given.blur_radius = 0
    /\ "blur" \notin {F.steps[i] : i \in 1..Len(F.steps)}
    /\ "exif" \in files[InPath].tags

\* C16: with valid parameters no pass upscales: each candidate is at most the
\* original in width and height, and with min_size_percentage = 1.0 it has
\* exactly the original dimensions.
C16_NoUpscale ==
    InRange(F.given) =>
        \A i \in 1..Len(F.hist) :
            /\ F.hist[i].width <= F.original_width
            /\ F.hist[i].height <= F.original_height
            /\ F.given.min_size_percentage = Unit =>
                  /\ F.hist[i].width = F.original_width
                  /\ F.hist[i].height = F.original_height

\* min_size_percentage = 1.0: a later pass, at a scale below 1, keeps the
\* original dimensions
C16_Witness ==
    /\ InRange(F.given) /\ F.given.min_size_percentage = Unit
    /\ Len(F.hist) >= 2 /\ F.hist[2].scale < Unit
    /\ F.hist[2].width = F.original_width /\ F.original_width > 1

\* C17: from an initial scale_factor in (0.1, 1.0], the scale decreases
\* strictly from pass to pass, every pass but the last runs at a scale above
\* 0.1, and a pass at a scale of 0.1 or less is followed by no other.
C17_OneLowScalePass ==
    (InRange(F.given) /\ Looping(F)) =>
        /\ \A i \in 1..(Len(F.hist) - 1) :
              /\ F.hist[i].scale > MinScale
              /\ F.hist[i + 1].scale < F.hist[i].scale
        /\ F.pc = "pass" => LastPass(F).scale > MinScale
        /\ F.scale_factor <= LastPass(F).scale
        /\ F.hist[1].scale = F.given.scale_factor

\* a call whose last pass, and only that one, ran at a scale of 0.1 or less
C17_Witness ==
    /\ InRange(F.given) /\ F.pc = "returned"
    /\ Len(F.hist) >= 2
    /\ LastPass(F).scale <= MinScale

----------------------------------------------------------------------------
(* Properties of /compress requests *)

\* the files on disk that request r wrote last
FilesOf(r) == {q \in DOMAIN files : files[q].writer = r}

\* C9: once a request is finished, on any exit path, no file it created (the
\* temporary input, the temporary output placeholder, the encoded artifact)
\* is left on the filesystem.
C9_NoFileOutlivesRequest ==
    \A r \in Requests : reqs[r].pc = "done" => FilesOf(r) = {}

\* a request is in progress from its arrival until its response is out
InProgress(r) == reqs[r].pc # "done"

\* C10: two requests in progress at the same time write their artifacts to
\* distinct paths, and a request that answers 200 delivers the artifact its
\* own compress_tiff_file call wrote.
C10_DistinctArtifactPaths ==
    /\ \A r1, r2 \in Requests :
          (/\ r1 # r2 /\ InProgress(r1) /\ InProgress(r2)
           /\ call[r1].output_file # NoPath /\ call[r2].output_file # NoPath)
              => call[r1].output_file # call[r2].output_file
    /\ \A r \in Requests :
          reqs[r].status = 200 => reqs[r].delivered.writer = r

\* the handler body has not created, decoded or compressed anything for r
Untouched(r) ==
    /\ reqs[r].temp_input_path = NoPath
    /\ reqs[r].temp_output_path = NoPath
    /\ call[r] = Idle
    /\ FilesOf(r) = {}

PastExtension(r) ==
    reqs[r].pc \notin {"received", "extension"} /\ reqs[r].status \notin {400, 422}

\* C12: a request past the extension check in which writing the upload,
\* decoding, compressing or encoding failed is answered 500: a 200 is only
\* given for a call that returned, and no other status occurs.
C12_FailuresAnswer500 ==
    \A r \in Requests :
        PastExtension(r) =>
            /\ reqs[r].status \in {0, 200, 500}
            /\ (reqs[r].pc = "done"
                   /\ (reqs[r].failed \/ call[r].pc = "raised")) =>
                  reqs[r].status = 500
            /\ reqs[r].status = 200 =>
                  call[r].pc = "returned" /\ ~reqs[r].failed

\* both failure routes answered 500: an upload copy that failed, and a save
\* that failed in a later pass, after an artifact had been written
C12_Witness ==
    \E r, o \in Requests :
        /\ r # o
        /\ reqs[r].status = 500 /\ call[r].error = "IOError"
        /\ call[r].writes >= 1
        /\ reqs[o].status = 500 /\ call[o] = Idle

\* C18: on the success path the file handed to the response still exists
\* once the finally block has run: the cleanup does not delete the artifact.
C18_ArtifactSurvivesCleanup ==
    \A r \in Requests :
        reqs[r].pc = "sending" =>
            /\ Exists(reqs[r].output_file)
            /\ files[reqs[r].output_file].kind = "tiff"

\* a response about to be sent, its two temporary files already unlinked
C18_Witness ==
    \E r \in Requests :
        /\ reqs[r].pc = "sending"
        /\ reqs[r].temp_input_path # NoPath
        /\ ~Exists(reqs[r].temp_input_path)
        /\ ~Exists(reqs[r].temp_output_path)
        /\ \A o \in Requests \ {r} : reqs[o].pc = "received"

====
